---- MODULE Spec2Model ----
(***************************************************************************)
(* State circuit of the zkEVM specification (zkevm_specs/state.py): the    *)
(* row validator check_state_row with its per-tag rules, the comparator    *)
(* LowerThanGadget, the row builder Assigner.op2row and the projection     *)
(* mpt_table_from_ops.                                                     *)
(*                                                                         *)
(* Representation of values.  A field element FQ whose integer can exceed  *)
(* a machine word (rw_counter, address) and every unbounded Python int is  *)
(* a little-endian sequence of base-2^16 limbs without trailing zeros      *)
(* (0 is <<>>).  Field elements that the validator range-checks to a few   *)
(* bits, or that the tables below keep small (tag, id, field_tag,          *)
(* is_write, value, aux, mpt_counter, single limbs and bytes) are plain    *)
(* integers; they stay far below the field modulus, so FQ addition on them *)
(* is integer addition.  The random linear combination of the 32 storage   *)
(* key bytes is kept as the polynomial in the challenge, i.e. the sequence *)
(* of its coefficients: two such values are equal iff the coefficients     *)
(* are.                                                                    *)
(***************************************************************************)
EXTENDS Integers, Sequences, FiniteSets, TLC

\* rows:    the rows handed to check_state_row so far, in table order
\* verdict: "accept" when the last of them passed, "reject" when it raised
\* tables:  the MPT oracle
\* ops:     the operation list given to assign_state_circuit (empty when the
\*          rows do not come from the row builder)
\* gadget:  a LowerThanGadget, the record of its fields lhs and rhs (both empty
\*          when the comparator is not called on its own)
VARIABLES rows, verdict, tables, ops, gadget

vars == <<rows, verdict, tables, ops, gadget>>

-----------------------------------------------------------------------------
(* Program constants *)

MAX_STACK_PTR == 1023
MAX_TAG == 12
MAX_ID == 268435455
MAX_FIELD_TAG == 24
RW_COUNTER_BITS == 32
TAG_BITS == 4
ID_BITS == 28
ADDRESS_BITS == 160

\* class Tag(IntEnum)
Start == 1
Memory == 2
Stack == 3
Storage == 4
CallContext == 5
Account == 6
TxRefund == 7
TxAccessListAccount == 8
TxAccessListAccountStorage == 9
AccountDestructed == 10
TxLog == 11
TxReceipt == 12

\* base of the 16-bit limbs (2**16) and of the bytes (2**8)
LIMB == 65536
BYTE == 256
\* number of limbs keys_rwc_to_limbs_in_order returns
NUM_LIMBS == 31

-----------------------------------------------------------------------------
(* Unbounded integers as little-endian base-2^16 limb sequences *)

Max(a, b) == IF a >= b THEN a ELSE b

RECURSIVE Pow2(_)
Pow2(n) == IF n = 0 THEN 1 ELSE 2 * Pow2(n - 1)

RECURSIVE BigNorm(_)
BigNorm(s) ==
    IF s = <<>> THEN s
    ELSE IF s[Len(s)] = 0 THEN BigNorm(SubSeq(s, 1, Len(s) - 1))
    ELSE s

BigLimb(a, i) == IF i <= Len(a) THEN a[i] ELSE 0

\* a Python int below 2^31 as a limb sequence
BigOfInt(n) == BigNorm(<<n % LIMB, n \div LIMB>>)

\* the limbs of a + b + carry * 2^(16 (i - 1)) from limb i on
RECURSIVE AddLimbs(_, _, _, _)
AddLimbs(a, b, i, carry) ==
    IF carry = 0 /\ i > Len(b) THEN SubSeq(a, i, Len(a))
    ELSE IF carry = 0 /\ i > Len(a) THEN SubSeq(b, i, Len(b))
    ELSE LET t == BigLimb(a, i) + BigLimb(b, i) + carry
         IN  <<t % LIMB>> \o AddLimbs(a, b, i + 1, t \div LIMB)

\* a + b
BigAdd(a, b) == BigNorm(AddLimbs(a, b, 1, 0))

\* a * 2**bits
BigShl(a, bits) ==
    LET q == bits \div 16
        m == Pow2(bits % 16)
        n == Len(a) + 1
        part == IF m = 1 THEN a
                ELSE [i \in 1..n |->
                        ((BigLimb(a, i) * m) % LIMB)
                        + (IF i = 1 THEN 0 ELSE (BigLimb(a, i - 1) * m) \div LIMB)]
    IN  IF a = <<>> THEN a ELSE BigNorm([i \in 1..q |-> 0] \o part)

\* a < b
BigLt(a, b) ==
    \/ Len(a) < Len(b)
    \/ /\ Len(a) = Len(b)
       /\ \E i \in 1..Len(a) :
            /\ a[i] < b[i]
            /\ \A j \in (i + 1)..Len(a) : a[j] = b[j]

BigLeq(a, b) == a = b \/ BigLt(a, b)

\* 2**32 - 1 as a limb sequence
MAX_RW_COUNTER == <<65535, 65535>>
MAX_MEMORY_ADDRESS == <<65535, 65535>>

-----------------------------------------------------------------------------
(* Row accessors *)

tag(r) == r.keys[1]
id(r) == r.keys[2]
address(r) == r.keys[3]
address_limbs(r) == r.key2_limbs
field_tag(r) == r.keys[4]
storage_key(r) == r.keys[5]
storage_key_bytes(r) == r.key4_bytes

\* FQ(0) as a random linear combination: the zero polynomial
RLC_ZERO == <<>>

\* linear_combine(limbs, FQ(2**16), range_check=False)
linear_combine_limbs(limbs) ==
    LET acc[i \in 0..Len(limbs)] ==
            IF i = 0 THEN <<>>
            ELSE BigAdd(acc[i - 1], BigShl(BigOfInt(limbs[i]), 16 * (i - 1)))
    IN  acc[Len(limbs)]

\* linear_combine(bytes, randomness) succeeds: every item is a byte
linear_combine_in_range(bytes) == \A i \in 1..Len(bytes) : 0 <= bytes[i] /\ bytes[i] < BYTE

\* linear_combine(bytes, randomness): the polynomial in the challenge with the
\* bytes as coefficients, lowest degree first, without trailing zeros
linear_combine_rlc(bytes) == BigNorm(bytes)

\* int.from_bytes(bytes, "little")
int_from_bytes(bytes) ==
    BigNorm([j \in 1..(Len(bytes) \div 2) |-> bytes[2 * j - 1] + BYTE * bytes[2 * j]])

all_keys_eq(r, rp) == \A i \in 1..Len(r.keys) : r.keys[i] = rp.keys[i]

-----------------------------------------------------------------------------
(* Tables: the MPT oracle, a set of MPTTableRow *)

\* MPTTableTag.Storage
MPTTableTag_Storage == 4
\* TxReceiptFieldTag
PostStateOrStatus == 1
CumulativeGasUsed == 2
LogLength == 3

MPTTableRow(counter, target, addr, key, value, value_prev) ==
    [counter |-> counter, target |-> target, address |-> addr, key |-> key,
     value |-> value, value_prev |-> value_prev]

\* lookup(MPTTableRow, table, query) with all six fields in the query
lookup(table, query) == query \in table

mpt_account_lookup(t, counter, target, addr, value, value_prev) ==
    lookup(t, MPTTableRow(counter, target, addr, RLC_ZERO, value, value_prev))

mpt_storage_lookup(t, counter, addr, key, value, value_prev) ==
    lookup(t, MPTTableRow(counter, MPTTableTag_Storage, addr, key, value, value_prev))

-----------------------------------------------------------------------------
(* Comparator *)

\* variant: a lower limb decides also when the higher limbs differ
LowerThanGadget_verify_no_eq(lhs, rhs) ==
    LET lt[i \in 1..Len(lhs)] ==
            IF i = 1 THEN lhs[1] < rhs[1]
            ELSE lhs[i] < rhs[i] \/ lt[i - 1]
    IN  lt[Len(lhs)]

\* variant: the least significant limbs are compared with <=
LowerThanGadget_verify_leq(lhs, rhs) ==
    LET lt[i \in 1..Len(lhs)] ==
            IF i = 1 THEN lhs[1] <= rhs[1]
            ELSE lhs[i] < rhs[i] \/ (lhs[i] = rhs[i] /\ lt[i - 1])
    IN  lt[Len(lhs)]

\* LowerThanGadget(lhs, rhs).verify()
LowerThanGadget_verify(lhs, rhs) ==
    LET lt[i \in 1..Len(lhs)] ==
            IF i = 1 THEN lhs[1] < rhs[1]
            ELSE lhs[i] < rhs[i] \/ (lhs[i] = rhs[i] /\ lt[i - 1])
    IN  lt[Len(lhs)]

assert_in_range(x, min_val, max_val) == min_val <= x /\ x <= max_val

\* assert_in_range on a field element kept as a limb sequence
assert_in_range_n(x, min_val, max_val) == BigLeq(min_val, x) /\ BigLeq(x, max_val)

-----------------------------------------------------------------------------
(* Per-tag rules *)

\* variant: the mpt_counter of a Start row is not constrained
check_start_rw_counter_only(r, rp) == r.rw_counter = <<>>

check_start(r, rp) ==
    /\ r.rw_counter = <<>>
    /\ r.mpt_counter = 0

\* variant: the value range ends one too high
check_memory_value_off_by_one(r, rp) ==
    /\ field_tag(r) = 0
    /\ storage_key(r) = RLC_ZERO
    /\ (~all_keys_eq(r, rp) /\ r.is_write = 0) => r.value = 0
    /\ assert_in_range_n(address(r), <<>>, MAX_MEMORY_ADDRESS)
    /\ assert_in_range(r.value, 0, 256)

check_memory(r, rp) ==
    /\ field_tag(r) = 0
    /\ storage_key(r) = RLC_ZERO
    /\ (~all_keys_eq(r, rp) /\ r.is_write = 0) => r.value = 0
    /\ assert_in_range_n(address(r), <<>>, MAX_MEMORY_ADDRESS)
    /\ assert_in_range(r.value, 0, 255)

\* variant: the pointer may also move up by 2
stack_ptr_diff_up_to_2(ptr, ptr_prev) ==
    \/ ptr = ptr_prev
    \/ ptr = BigAdd(ptr_prev, <<1>>)
    \/ ptr = BigAdd(ptr_prev, <<2>>)

\* stack_ptr_diff = ptr - ptr_prev in the field lies in [0, 1]
stack_ptr_diff_in_range(ptr, ptr_prev) ==
    ptr = ptr_prev \/ ptr = BigAdd(ptr_prev, <<1>>)

\* variant: the first access to a stack slot may be a read
check_stack_read_first(r, rp) ==
    /\ field_tag(r) = 0
    /\ storage_key(r) = RLC_ZERO
    /\ assert_in_range_n(address(r), <<>>, BigOfInt(MAX_STACK_PTR))
    /\ (tag(r) = tag(rp) /\ id(r) = id(rp)) =>
            stack_ptr_diff_in_range(address(r), address(rp))

check_stack(r, rp) ==
    /\ field_tag(r) = 0
    /\ storage_key(r) = RLC_ZERO
    /\ ~all_keys_eq(r, rp) => r.is_write = 1
    /\ assert_in_range_n(address(r), <<>>, BigOfInt(MAX_STACK_PTR))
    /\ (tag(r) = tag(rp) /\ id(r) = id(rp)) =>
            stack_ptr_diff_in_range(address(r), address(rp))

\* variant: value_prev is always the committed value
mpt_value_prev_committed(r, rp) == r.auxs[1]

\* value_prev of the MPT lookups of check_storage and check_account
mpt_value_prev(r, rp) == IF all_keys_eq(r, rp) THEN rp.value ELSE r.auxs[1]

\* variant: the committed value may change between rows of the same keys
check_storage_drifting_baseline(r, rp, t) ==
    /\ field_tag(r) = 0
    /\ mpt_storage_lookup(t, r.mpt_counter, address(r), storage_key(r), r.value,
                          mpt_value_prev(r, rp))

check_storage(r, rp, t) ==
    /\ field_tag(r) = 0
    /\ all_keys_eq(r, rp) => r.auxs[1] = rp.auxs[1]
    /\ mpt_storage_lookup(t, r.mpt_counter, address(r), storage_key(r), r.value,
                          mpt_value_prev(r, rp))

check_call_context(r, rp) ==
    /\ address(r) = <<>>
    /\ storage_key(r) = RLC_ZERO

check_account(r, rp, t) ==
    /\ id(r) = 0
    /\ storage_key(r) = RLC_ZERO
    /\ all_keys_eq(r, rp) => r.auxs[1] = rp.auxs[1]
    /\ mpt_account_lookup(t, r.mpt_counter, field_tag(r), address(r), r.value,
                          mpt_value_prev(r, rp))

check_tx_refund(r, rp) ==
    /\ address(r) = <<>>
    /\ field_tag(r) = 0
    /\ storage_key(r) = RLC_ZERO

check_tx_access_list_account(r, rp) ==
    /\ field_tag(r) = 0
    /\ storage_key(r) = RLC_ZERO

check_tx_access_list_account_storage(r, rp) ==
    field_tag(r) = 0

check_account_destructed(r, rp) ==
    /\ id(r) = 0
    /\ field_tag(r) = 0
    /\ storage_key(r) = RLC_ZERO

check_tx_log(r, rp) ==
    r.is_write = 1

\* variant: a new transaction id need not be the previous one plus 1
check_tx_receipt_any_id_step(r, rp) ==
    /\ address(r) = <<>>
    /\ storage_key(r) = RLC_ZERO
    /\ field_tag(r) = PostStateOrStatus => r.value \in {0, 1}
    /\ (id(r) # id(rp) /\ tag(r) = tag(rp) /\ field_tag(r) = CumulativeGasUsed) =>
            r.value > rp.value
    /\ tag(r) # tag(rp) => id(r) = 1
    /\ assert_in_range(id(r), 1, 2048)

check_tx_receipt(r, rp) ==
    /\ address(r) = <<>>
    /\ storage_key(r) = RLC_ZERO
    /\ field_tag(r) = PostStateOrStatus => r.value \in {0, 1}
    /\ (id(r) # id(rp) /\ tag(r) = tag(rp)) =>
            /\ id(r) = id(rp) + 1
            /\ field_tag(r) = CumulativeGasUsed => r.value > rp.value
    /\ tag(r) # tag(rp) => id(r) = 1
    /\ assert_in_range(id(r), 1, 2048)

-----------------------------------------------------------------------------
(* Constraints that affect all rows *)

\* the packed integer v of keys_rwc_to_limbs_in_order
keys_rwc_packed(r) ==
    LET v1 == BigOfInt(tag(r))
        v2 == BigAdd(BigShl(v1, ID_BITS), BigOfInt(id(r)))
        v3 == BigAdd(BigShl(v2, ADDRESS_BITS), address(r))
        v4 == BigAdd(BigShl(v3, 16), BigOfInt(field_tag(r)))
        v5 == BigAdd(BigShl(v4, 32), int_from_bytes(storage_key_bytes(r)))
    IN  BigAdd(BigShl(v5, RW_COUNTER_BITS), r.rw_counter)

keys_rwc_to_limbs_in_order(r) ==
    LET v == keys_rwc_packed(r)
    IN  [i \in 1..NUM_LIMBS |-> BigLimb(v, i)]

\* variant: the id 0 is out of range
check_ranges_id_from_1(r) ==
    /\ assert_in_range(tag(r), 1, MAX_TAG)
    /\ assert_in_range(id(r), 1, MAX_ID)
    /\ assert_in_range(field_tag(r), 0, MAX_FIELD_TAG)
    /\ \A i \in 1..Len(address_limbs(r)) : assert_in_range(address_limbs(r)[i], 0, LIMB - 1)
    /\ address(r) = linear_combine_limbs(address_limbs(r))
    /\ linear_combine_in_range(storage_key_bytes(r))
    /\ storage_key(r) = linear_combine_rlc(storage_key_bytes(r))
    /\ r.is_write \in {0, 1}

\* 0.0 - 0.3
check_ranges(r) ==
    /\ assert_in_range(tag(r), 1, MAX_TAG)
    /\ assert_in_range(id(r), 0, MAX_ID)
    /\ assert_in_range(field_tag(r), 0, MAX_FIELD_TAG)
    /\ \A i \in 1..Len(address_limbs(r)) : assert_in_range(address_limbs(r)[i], 0, LIMB - 1)
    /\ address(r) = linear_combine_limbs(address_limbs(r))
    /\ linear_combine_in_range(storage_key_bytes(r))
    /\ storage_key(r) = linear_combine_rlc(storage_key_bytes(r))
    /\ r.is_write \in {0, 1}

\* variant: Start rows are ordered like the others
check_order_every_tag(r, rp) ==
    LowerThanGadget_verify(keys_rwc_to_limbs_in_order(rp), keys_rwc_to_limbs_in_order(r))

\* 0.4
check_order(r, rp) ==
    tag(r) # Start =>
        LowerThanGadget_verify(keys_rwc_to_limbs_in_order(rp), keys_rwc_to_limbs_in_order(r))

\* variant: the write flag is tested the wrong way round
check_read_consistency_on_writes(r, rp) ==
    (r.is_write = 1 /\ all_keys_eq(r, rp)) => r.value = rp.value

\* 0.5
check_read_consistency(r, rp) ==
    (r.is_write = 0 /\ all_keys_eq(r, rp)) => r.value = rp.value

\* variant: Account rows do not advance the counter
check_mpt_counter_storage_only(r, rp) ==
    tag(r) # Start =>
        IF tag(r) = Storage
        THEN r.mpt_counter = rp.mpt_counter + 1
        ELSE r.mpt_counter = rp.mpt_counter

\* 7
check_mpt_counter(r, rp) ==
    tag(r) # Start =>
        IF tag(r) = Storage \/ tag(r) = Account
        THEN r.mpt_counter = rp.mpt_counter + 1
        ELSE r.mpt_counter = rp.mpt_counter

\* 8
check_rw_counter_nonzero(r) ==
    tag(r) # Start => r.rw_counter # <<>>

check_tag_rules(r, rp, t) ==
    CASE tag(r) = Start -> check_start(r, rp)
      [] tag(r) = Memory -> check_memory(r, rp)
      [] tag(r) = Stack -> check_stack(r, rp)
      [] tag(r) = Storage -> check_storage(r, rp, t)
      [] tag(r) = CallContext -> check_call_context(r, rp)
      [] tag(r) = Account -> check_account(r, rp, t)
      [] tag(r) = TxRefund -> check_tx_refund(r, rp)
      [] tag(r) = TxAccessListAccountStorage -> check_tx_access_list_account_storage(r, rp)
      [] tag(r) = TxAccessListAccount -> check_tx_access_list_account(r, rp)
      [] tag(r) = AccountDestructed -> check_account_destructed(r, rp)
      [] tag(r) = TxReceipt -> check_tx_receipt(r, rp)
      [] tag(r) = TxLog -> check_tx_log(r, rp)
      [] OTHER -> FALSE

\* TRUE iff check_state_row(row, row_prev, tables, randomness) raises nothing
check_state_row(r, rp, t) ==
    /\ check_ranges(r)
    /\ check_order(r, rp)
    /\ check_read_consistency(r, rp)
    /\ check_mpt_counter(r, rp)
    /\ check_rw_counter_nonzero(r)
    /\ check_tag_rules(r, rp, t)

-----------------------------------------------------------------------------
(* Operations and the row builder *)

\* RW
Read == 0
Write == 1

Operation(rw_counter, rw, t, i, addr, ft, key, value, aux0) ==
    [rw_counter |-> rw_counter, rw |-> rw, tag |-> t, id |-> i, address |-> addr,
     field_tag |-> ft, storage_key |-> key, value |-> value, aux0 |-> aux0]

StartOp == Operation(<<>>, 0, Start, 0, <<>>, 0, <<>>, 0, 0)

MemoryOp(rw_counter, rw, call_id, mem_addr, value) ==
    Operation(rw_counter, rw, Memory, call_id, mem_addr, 0, <<>>, value, 0)

StackOp(rw_counter, rw, call_id, stack_ptr, value) ==
    Operation(rw_counter, rw, Stack, call_id, stack_ptr, 0, <<>>, value, 0)

StorageOp(rw_counter, rw, tx_id, addr, key, value, committed_value) ==
    Operation(rw_counter, rw, Storage, tx_id, addr, 0, key, value, committed_value)

CallContextOp(rw_counter, rw, call_id, ft, value) ==
    Operation(rw_counter, rw, CallContext, call_id, <<>>, ft, <<>>, value, 0)

AccountOp(rw_counter, rw, addr, ft, value, committed_value) ==
    Operation(rw_counter, rw, Account, 0, addr, ft, <<>>, value, committed_value)

TxRefundOp(rw_counter, rw, tx_id, value) ==
    Operation(rw_counter, rw, TxRefund, tx_id, <<>>, 0, <<>>, value, 0)

TxAccessListAccountOp(rw_counter, rw, tx_id, addr, value) ==
    Operation(rw_counter, rw, TxAccessListAccount, tx_id, addr, 0, <<>>, value, 0)

TxAccessListAccountStorageOp(rw_counter, rw, tx_id, addr, key, value) ==
    Operation(rw_counter, rw, TxAccessListAccountStorage, tx_id, addr, 0, key, value, 0)

AccountDestructedOp(rw_counter, rw, addr, value) ==
    Operation(rw_counter, rw, AccountDestructed, 0, addr, 0, <<>>, value, 0)

TxLogOp(rw_counter, rw, tx_id, log_id, ft, index, value) ==
    Operation(rw_counter, rw, TxLog, tx_id, log_id, ft, index, value, 0)

TxReceiptOp(rw_counter, rw, tx_id, ft, value) ==
    Operation(rw_counter, rw, TxReceipt, tx_id, <<>>, ft, <<>>, value, 0)

\* n.to_bytes(20, "little") raises OverflowError from 2**160 on
address_to_bytes_ok(addr) == Len(addr) <= 10

\* the ten 16-bit limbs built from the 20 little-endian bytes of the address
address_to_limbs(addr) == [i \in 1..10 |-> BigLimb(addr, i)]

\* RLC(storage_key, randomness).le_bytes
rlc_le_bytes(key) ==
    [i \in 1..32 |-> IF i % 2 = 1 THEN BigLimb(key, (i + 1) \div 2) % BYTE
                                  ELSE BigLimb(key, i \div 2) \div BYTE]

\* variant: the row is stamped before the counter is incremented
op2row_stamp_before_increment(counter, op) ==
    LET next == IF op.tag = Storage \/ op.tag = Account THEN counter + 1 ELSE counter
    IN  [mpt_counter |-> next,
         row |-> [rw_counter |-> op.rw_counter,
                  is_write |-> IF op.rw = Read THEN 0 ELSE 1,
                  keys |-> <<op.tag, op.id, op.address, op.field_tag,
                             linear_combine_rlc(rlc_le_bytes(op.storage_key))>>,
                  key2_limbs |-> address_to_limbs(op.address),
                  key4_bytes |-> rlc_le_bytes(op.storage_key),
                  value |-> op.value,
                  auxs |-> <<op.aux0>>,
                  mpt_counter |-> counter]]

\* Assigner.op2row with self.mpt_counter = counter: the row and the counter after
op2row(counter, op) ==
    LET next == IF op.tag = Storage \/ op.tag = Account THEN counter + 1 ELSE counter
    IN  [mpt_counter |-> next,
         row |-> [rw_counter |-> op.rw_counter,
                  is_write |-> IF op.rw = Read THEN 0 ELSE 1,
                  keys |-> <<op.tag, op.id, op.address, op.field_tag,
                             linear_combine_rlc(rlc_le_bytes(op.storage_key))>>,
                  key2_limbs |-> address_to_limbs(op.address),
                  key4_bytes |-> rlc_le_bytes(op.storage_key),
                  value |-> op.value,
                  auxs |-> <<op.aux0>>,
                  mpt_counter |-> next]]

\* Assigner.__init__: self.mpt_counter = FQ(0)
Assigner_init == 0

\* variant: every operation is given to a new Assigner
RECURSIVE assign_rows_new_assigner(_, _)
assign_rows_new_assigner(counter, oplist) ==
    IF oplist = <<>> THEN <<>>
    ELSE LET r == op2row(counter, Head(oplist))
         IN  <<r.row>> \o assign_rows_new_assigner(counter, Tail(oplist))

\* [assigner.op2row(op, randomness) for op in ops] with assigner.mpt_counter = counter
RECURSIVE assign_rows(_, _)
assign_rows(counter, oplist) ==
    IF oplist = <<>> THEN <<>>
    ELSE LET r == op2row(counter, Head(oplist))
         IN  <<r.row>> \o assign_rows(r.mpt_counter, Tail(oplist))

\* assign_state_circuit(ops, randomness) when it returns
assign_state_circuit(oplist) == assign_rows(Assigner_init, oplist)

\* assign_state_circuit(ops, randomness) raises: op2row does for one of the ops
assign_state_circuit_raises(oplist) ==
    \E i \in 1..Len(oplist) : ~address_to_bytes_ok(oplist[i].address)

\* isinstance(x, Operation): an operation has the field tag, a row has keys
IsOperation(x) == "tag" \in DOMAIN x

\* variant: value_prev is always the committed value
mpt_table_from_ops_committed_only(ops_or_rows) ==
    LET rs == IF IsOperation(ops_or_rows[1]) THEN assign_state_circuit(ops_or_rows)
              ELSE ops_or_rows
        value_prev(idx) == rs[idx].auxs[1]
    IN  {MPTTableRow(rs[idx].mpt_counter, MPTTableTag_Storage, rs[idx].keys[3],
                     rs[idx].keys[5], rs[idx].value, value_prev(idx)) :
            idx \in {i \in 1..Len(rs) : rs[i].keys[1] = Storage}}
        \cup {MPTTableRow(rs[idx].mpt_counter, rs[idx].keys[4], rs[idx].keys[3],
                          rs[idx].keys[5], rs[idx].value, value_prev(idx)) :
                idx \in {i \in 1..Len(rs) : rs[i].keys[1] = Account}}

\* mpt_table_from_ops(ops_or_rows, randomness) when it returns
mpt_table_from_ops(ops_or_rows) ==
    LET rs == IF IsOperation(ops_or_rows[1]) THEN assign_state_circuit(ops_or_rows)
              ELSE ops_or_rows
        value_prev(idx) ==
            IF idx > 1 /\ all_keys_eq(rs[idx], rs[idx - 1]) THEN rs[idx - 1].value
            ELSE rs[idx].auxs[1]
    IN  {MPTTableRow(rs[idx].mpt_counter, MPTTableTag_Storage, rs[idx].keys[3],
                     rs[idx].keys[5], rs[idx].value, value_prev(idx)) :
            idx \in {i \in 1..Len(rs) : rs[i].keys[1] = Storage}}
        \cup {MPTTableRow(rs[idx].mpt_counter, rs[idx].keys[4], rs[idx].keys[3],
                          rs[idx].keys[5], rs[idx].value, value_prev(idx)) :
                idx \in {i \in 1..Len(rs) : rs[i].keys[1] = Account}}

\* mpt_table_from_ops raises: ops_or_rows[0] on an empty list, or op2row
mpt_table_from_ops_raises(ops_or_rows) ==
    \/ ops_or_rows = <<>>
    \/ IsOperation(ops_or_rows[1]) /\ assign_state_circuit_raises(ops_or_rows)

-----------------------------------------------------------------------------
(* The validator scanning a table: check_state_row on every consecutive    *)
(* pair, the first row's predecessor being the Start row of zeros.  A      *)
(* failed assertion rejects the whole table.                               *)

MaxRows == 3

FirstPrev == op2row(0, StartOp).row

\* a row with the decompositions of op and the given mpt_counter
RowOf(op, counter) == [op2row(0, op).row EXCEPT !.mpt_counter = counter]

\* 2**32, one more than MAX_RW_COUNTER and than MAX_MEMORY_ADDRESS
Two32 == <<0, 0, 1>>
\* 2**49 and 2**81
Two49 == <<0, 0, 0, 2>>
Two81 == <<0, 0, 0, 0, 0, 2>>

\* Start rows, one with a nonzero rw_counter and one with a nonzero mpt_counter
StartRows ==
    {RowOf(StartOp, 0), RowOf(StartOp, 1), RowOf([StartOp EXCEPT !.rw_counter = <<1>>], 0)}

\* Memory rows of call 1: two addresses, byte values 0 and 1, and rows with one
\* field out of its range or shape
MemoryRows ==
    {RowOf(MemoryOp(c, rw, 1, a, v), 0) :
        c \in {<<>>, <<1>>, <<2>>, <<3>>, Two81}, rw \in {Read, Write},
        a \in {<<>>, <<1>>}, v \in {0, 1}}
    \cup {RowOf(MemoryOp(<<1>>, Write, 1, Two32, 0), 0),
          RowOf(MemoryOp(<<1>>, Write, 1, <<65535, 65535>>, 0), 0),
          RowOf(MemoryOp(<<1>>, Write, 1, <<>>, 256), 0),
          RowOf(MemoryOp(<<1>>, Write, 1, <<>>, 255), 0),
          RowOf(Operation(<<1>>, Write, Memory, 1, <<>>, 1, <<>>, 0, 0), 0),
          RowOf(Operation(<<1>>, Write, Memory, 1, <<>>, 0, <<1>>, 0, 0), 0)}

\* TxAccessListAccountStorage rows of transaction 1 with small and with wide
\* storage keys
TxAccessListAccountStorageRows ==
    {RowOf(TxAccessListAccountStorageOp(c, Write, 1, a, k, 0), 0) :
        c \in {<<1>>, <<2>>}, a \in {<<>>, <<1>>},
        k \in {<<>>, <<1>>, Two49, [i \in 1..16 |-> IF i = 16 THEN 1 ELSE 0]}}

AccountDestructedRows ==
    {RowOf(AccountDestructedOp(c, Write, a, 0), 0) : c \in {<<1>>, <<2>>}, a \in {<<>>, <<1>>}}

\* the account address and the storage slot the MPT rows below are about
Addr1 == <<1>>
Slot1 == <<1>>
Key1 == linear_combine_rlc(rlc_le_bytes(Slot1))

\* an oracle with every entry about Addr1 for counters 1..MaxRows
MptEntries ==
    {MPTTableRow(c, t, Addr1, k, v, vp) :
        c \in 1..MaxRows, t \in {MPTTableTag_Storage, 1},
        k \in {RLC_ZERO, Key1}, v \in {0, 1}, vp \in {0, 1}}

\* one write and two reads per tag, on one key of that tag
AnyOps ==
    UNION {{Operation(IF t = Start THEN <<>> ELSE <<1>>, Write, t, i, a, ft, k, 1, 0),
            Operation(IF t = Start THEN <<>> ELSE <<2>>, Read, t, i, a, ft, k, 1, 0),
            Operation(IF t = Start THEN <<>> ELSE <<2>>, Read, t, i, a, ft, k, 0, 0)} :
           <<t, i, a, ft, k>> \in
              {<<Start, 0, <<>>, 0, <<>>>>,
               <<Memory, 1, <<>>, 0, <<>>>>,
               <<Stack, 1, <<>>, 0, <<>>>>,
               <<Storage, 1, Addr1, 0, Slot1>>,
               <<CallContext, 1, <<>>, 1, <<>>>>,
               <<Account, 0, Addr1, 1, <<>>>>,
               <<TxRefund, 1, <<>>, 0, <<>>>>,
               <<TxAccessListAccount, 1, Addr1, 0, <<>>>>,
               <<TxAccessListAccountStorage, 1, Addr1, 0, Slot1>>,
               <<AccountDestructed, 0, Addr1, 0, <<>>>>,
               <<TxLog, 1, <<>>, 1, <<>>>>,
               <<TxReceipt, 1, <<>>, 1, <<>>>>}}

\* Storage, Account and CallContext operations on one slot, one account field
\* and one call
StorageOps ==
    {StorageOp(c, rw, 1, Addr1, Slot1, v, cv) :
        c \in {<<1>>, <<2>>}, rw \in {Read, Write}, v \in {0, 1}, cv \in {0, 1}}

AccountOps ==
    {AccountOp(c, Write, Addr1, 1, v, cv) :
        c \in {<<1>>, <<2>>}, v \in {0, 1}, cv \in {0, 1}}

CallContextOps == {CallContextOp(<<1>>, Write, 1, 1, 0)}

\* the entries of MptEntries whose value_prev is 0
MptEntriesPrev0 == {e \in MptEntries : e.value_prev = 0}

\* Stack rows of two calls: pointers 0, 1, 2, the last valid one and the first
\* invalid one
StackRows ==
    {RowOf(StackOp(c, rw, i, ptr, 0), 0) :
        c \in {<<1>>, <<2>>}, rw \in {Read, Write}, i \in {1, 2},
        ptr \in {<<>>, <<1>>, <<2>>, <<1023>>, <<1024>>}}

CanValidate == verdict # "reject" /\ Len(rows) < MaxRows

\* the previous row of the next row to validate
Last == IF rows = <<>> THEN FirstPrev ELSE rows[Len(rows)]

\* the state after check_state_row(r, Last, tables, randomness)
After(r) ==
    [rows |-> Append(rows, r),
     verdict |-> IF check_state_row(r, Last, tables) THEN "accept" ELSE "reject"]

ValidateStart ==
    /\ CanValidate
    /\ \E r \in StartRows :
        /\ rows' = After(r).rows
        /\ verdict' = After(r).verdict
    /\ UNCHANGED <<tables, ops, gadget>>

ValidateMemory ==
    /\ CanValidate
    /\ \E r \in MemoryRows :
        /\ rows' = After(r).rows
        /\ verdict' = After(r).verdict
    /\ UNCHANGED <<tables, ops, gadget>>

ValidateTxAccessListAccountStorage ==
    /\ CanValidate
    /\ \E r \in TxAccessListAccountStorageRows :
        /\ rows' = After(r).rows
        /\ verdict' = After(r).verdict
    /\ UNCHANGED <<tables, ops, gadget>>

ValidateAccountDestructed ==
    /\ CanValidate
    /\ \E r \in AccountDestructedRows :
        /\ rows' = After(r).rows
        /\ verdict' = After(r).verdict
    /\ UNCHANGED <<tables, ops, gadget>>

\* the mpt_counter values tried for the next row
MptCounters == {0, Last.mpt_counter, Last.mpt_counter + 1}

MaxPairs == 2

ValidateAny ==
    /\ verdict # "reject"
    /\ Len(rows) < MaxPairs
    /\ \E op \in AnyOps, m \in MptCounters :
        /\ rows' = After(RowOf(op, m)).rows
        /\ verdict' = After(RowOf(op, m)).verdict
    /\ UNCHANGED <<tables, ops, gadget>>

ValidateStack ==
    /\ CanValidate
    /\ \E r \in StackRows :
        /\ rows' = After(r).rows
        /\ verdict' = After(r).verdict
    /\ UNCHANGED <<tables, ops, gadget>>

ValidateStorage ==
    /\ CanValidate
    /\ \E op \in StorageOps, m \in MptCounters :
        /\ rows' = After(RowOf(op, m)).rows
        /\ verdict' = After(RowOf(op, m)).verdict
    /\ UNCHANGED <<tables, ops, gadget>>

ValidateAccount ==
    /\ CanValidate
    /\ \E op \in AccountOps, m \in MptCounters :
        /\ rows' = After(RowOf(op, m)).rows
        /\ verdict' = After(RowOf(op, m)).verdict
    /\ UNCHANGED <<tables, ops, gadget>>

ValidateCallContext ==
    /\ CanValidate
    /\ \E op \in CallContextOps, m \in MptCounters :
        /\ rows' = After(RowOf(op, m)).rows
        /\ verdict' = After(RowOf(op, m)).verdict
    /\ UNCHANGED <<tables, ops, gadget>>

InitWith(T) ==
    /\ rows = <<>>
    /\ verdict = "none"
    /\ tables \in T
    /\ ops = <<>>
    /\ gadget = [lhs |-> <<>>, rhs |-> <<>>]

InitMemory == InitWith({{}})
NextMemory == ValidateStart \/ ValidateMemory
SpecMemory == InitMemory /\ [][NextMemory]_vars

\* a table of Memory rows alone, without padding rows
NextMemoryOnly == ValidateMemory
SpecMemoryOnly == InitMemory /\ [][NextMemoryOnly]_vars

\* tables of rows that carry a storage key
InitOrder == InitWith({{}})
NextOrder == ValidateTxAccessListAccountStorage \/ ValidateAccountDestructed
SpecOrder == InitOrder /\ [][NextOrder]_vars

\* tables of two rows with rows of all twelve tags
InitAny == InitWith({MptEntries})
NextAny == ValidateAny
SpecAny == InitAny /\ [][NextAny]_vars

\* tables with Storage and Account rows, under a full and a partial oracle
InitMpt == InitWith({MptEntries, MptEntriesPrev0})
NextMpt == ValidateStart \/ ValidateStorage \/ ValidateCallContext \/ ValidateAccount
SpecMpt == InitMpt /\ [][NextMpt]_vars

\* tables of Start and Stack rows
InitStack == InitWith({{}})
NextStack == ValidateStart \/ ValidateStack
SpecStack == InitStack /\ [][NextStack]_vars

\* TxReceipt rows of the first transactions and of the transactions around
\* the upper end of the transaction id range
TxReceiptRows ==
    {RowOf(TxReceiptOp(<<1>>, Write, i, ft, v), 0) :
        i \in {0, 1, 2, 2047, 2048, 2049},
        ft \in {PostStateOrStatus, CumulativeGasUsed, LogLength},
        v \in {0, 1, 2}}

ValidateTxReceipt ==
    /\ CanValidate
    /\ \E r \in TxReceiptRows :
        /\ rows' = After(r).rows
        /\ verdict' = After(r).verdict
    /\ UNCHANGED <<tables, ops, gadget>>

\* tables of Start and TxReceipt rows
InitReceipt == InitWith({{}})
NextReceipt == ValidateStart \/ ValidateTxReceipt
SpecReceipt == InitReceipt /\ [][NextReceipt]_vars

\* the same tables from their 2047th TxReceipt row on: rows holds the rows of
\* the table from the last row of transaction 2047, which was accepted after
\* the receipts of the transactions 1..2046
InitReceiptTail ==
    /\ rows \in {<<r>> : r \in {q \in TxReceiptRows : id(q) = 2047 /\ q.value < 2}}
    /\ verdict = "accept"
    /\ tables = {}
    /\ ops = <<>>
    /\ gadget = [lhs |-> <<>>, rhs |-> <<>>]
SpecReceiptTail == InitReceiptTail /\ [][NextReceipt]_vars

-----------------------------------------------------------------------------
(* The row builder called on an operation list *)

MaxOps == 3

\* 2**160 - 1 and 2**160 as addresses
MaxAddr160 == [i \in 1..10 |-> 65535]
Two160 == [i \in 1..11 |-> IF i = 11 THEN 1 ELSE 0]

\* one operation per kind of counter step, an Account operation on the
\* greatest 160-bit address and TxLog operations whose address field (the log
\* id) has 160 and 161 bits
BuildOps ==
    {StartOp,
     MemoryOp(<<1>>, Write, 1, <<>>, 1),
     StorageOp(<<2>>, Write, 1, Addr1, Slot1, 1, 0),
     AccountOp(<<3>>, Write, MaxAddr160, 1, 1, 0),
     CallContextOp(<<4>>, Read, 1, 1, 0),
     TxLogOp(<<5>>, Write, 1, MaxAddr160, 1, <<>>, 0),
     TxLogOp(<<5>>, Write, 1, Two160, 1, <<>>, 0)}

RECURSIVE SeqsUpTo(_, _)
SeqsUpTo(S, n) ==
    IF n = 0 THEN {<<>>}
    ELSE SeqsUpTo(S, n - 1) \cup {Append(q, x) : q \in {p \in SeqsUpTo(S, n - 1) : Len(p) = n - 1}, x \in S}

InitBuild ==
    /\ rows = <<>>
    /\ verdict = "none"
    /\ tables = {}
    /\ ops \in SeqsUpTo(BuildOps, MaxOps)
    /\ gadget = [lhs |-> <<>>, rhs |-> <<>>]

\* one call of assign_state_circuit(ops, randomness); verdict is "returned"
\* with the rows returned, or "raised"
AssignStateCircuit ==
    /\ verdict \in {"none", "returned"}
    /\ IF assign_state_circuit_raises(ops)
       THEN /\ verdict' = "raised"
            /\ rows' = rows
       ELSE /\ verdict' = "returned"
            /\ rows' = assign_state_circuit(ops)
    /\ UNCHANGED <<tables, ops, gadget>>

NextBuild == AssignStateCircuit
SpecBuild == InitBuild /\ [][NextBuild]_vars

-----------------------------------------------------------------------------
(* Tables of two rows with well-shaped and ill-shaped rows of every tag *)

\* one key tuple (tag, id, address, field_tag, storage_key) per tag
TagKeys ==
    {<<Start, 0, <<>>, 0, <<>>>>,
     <<Memory, 1, <<>>, 0, <<>>>>,
     <<Stack, 1, <<>>, 0, <<>>>>,
     <<Storage, 1, Addr1, 0, Slot1>>,
     <<CallContext, 1, <<>>, 1, <<>>>>,
     <<Account, 0, Addr1, 1, <<>>>>,
     <<TxRefund, 1, <<>>, 0, <<>>>>,
     <<TxAccessListAccount, 1, Addr1, 0, <<>>>>,
     <<TxAccessListAccountStorage, 1, Addr1, 0, Slot1>>,
     <<AccountDestructed, 0, Addr1, 0, <<>>>>,
     <<TxLog, 1, <<>>, 1, <<>>>>,
     <<TxReceipt, 1, <<>>, 1, <<>>>>}

\* the positions in the key tuple of the keys a tag does not use
UnusedKeys(t) ==
    CASE t = Start -> {2, 3, 4, 5}
      [] t \in {Memory, Stack, TxAccessListAccount} -> {4, 5}
      [] t \in {Storage, TxAccessListAccountStorage} -> {4}
      [] t \in {CallContext, TxReceipt} -> {3, 5}
      [] t = Account -> {2, 5}
      [] t = TxRefund -> {3, 4, 5}
      [] t = AccountDestructed -> {2, 4, 5}
      [] OTHER -> {}

\* a write of 1 with the given keys
OpOfKeys(k) ==
    Operation(IF k[1] = Start THEN <<>> ELSE <<1>>, Write, k[1], k[2], k[3], k[4], k[5], 1, 0)

\* the operations of TagKeys, and the same with one unused key set to 1
ShapeOps ==
    UNION {{OpOfKeys(k)}
           \cup {OpOfKeys([k EXCEPT ![i] = IF i \in {2, 4} THEN 1 ELSE <<1>>]) : i \in UnusedKeys(k[1])} :
           k \in TagKeys}

ValidateShape ==
    /\ verdict # "reject"
    /\ Len(rows) < MaxPairs
    /\ \E op \in ShapeOps, m \in MptCounters :
        /\ rows' = After(RowOf(op, m)).rows
        /\ verdict' = After(RowOf(op, m)).verdict
    /\ UNCHANGED <<tables, ops, gadget>>

InitShape == InitWith({MptEntries})
NextShape == ValidateShape
SpecShape == InitShape /\ [][NextShape]_vars

-----------------------------------------------------------------------------
(* Memory traces of a reference byte memory, built into rows and validated *)

MaxTrace == 3

\* call ids and addresses at both ends of their ranges
MemIds == {0, MAX_ID}
MemAddrs == {<<>>, MAX_MEMORY_ADDRESS}

\* the commands of a trace: reads, writes of 255, and a write of 1 to address
\* 0 of call 0
MemCmds ==
    {[rw |-> rw, id |-> i, addr |-> a, value |-> IF rw = Read THEN 0 ELSE 255] :
        rw \in {Read, Write}, i \in MemIds, a \in MemAddrs}
    \cup {[rw |-> Write, id |-> 0, addr |-> <<>>, value |-> 1]}

\* the rw_counter of the k-th command: 1, then the last values up to 2**32 - 1
RwcOf(k) == IF k = 1 THEN <<1>> ELSE <<65535 - (MaxTrace - k), 65535>>

\* the operations of the commands from the k-th on, run on the memory mem: a
\* read returns the last value written to (id, addr), or 0
RECURSIVE RunMemory(_, _, _)
RunMemory(cmds, k, mem) ==
    IF k > Len(cmds) THEN <<>>
    ELSE LET c == cmds[k]
             v == IF c.rw = Write THEN c.value ELSE mem[<<c.id, c.addr>>]
         IN  <<MemoryOp(RwcOf(k), c.rw, c.id, c.addr, v)>>
             \o RunMemory(cmds, k + 1, [mem EXCEPT ![<<c.id, c.addr>>] = v])

\* (id, address, rw_counter) of a is below that of b
MemOpLt(a, b) ==
    \/ a.id < b.id
    \/ a.id = b.id /\ BigLt(a.address, b.address)
    \/ a.id = b.id /\ a.address = b.address /\ BigLt(a.rw_counter, b.rw_counter)

RECURSIVE SortMemOps(_)
SortMemOps(s) ==
    IF s = <<>> THEN <<>>
    ELSE LET rest == SortMemOps(Tail(s))
             lo == SelectSeq(rest, LAMBDA x : MemOpLt(x, Head(s)))
             hi == SelectSeq(rest, LAMBDA x : ~MemOpLt(x, Head(s)))
         IN  lo \o <<Head(s)>> \o hi

\* a Start operation, then the sorted operations of a trace
MemoryTraces ==
    {<<StartOp>> \o SortMemOps(RunMemory(cmds, 1, [p \in MemIds \X MemAddrs |-> 0])) :
        cmds \in SeqsUpTo(MemCmds, MaxTrace)}

InitTrace ==
    /\ rows = <<>>
    /\ verdict = "none"
    /\ tables = {}
    /\ ops \in MemoryTraces
    /\ gadget = [lhs |-> <<>>, rhs |-> <<>>]

\* check_state_row on the next row of assign_state_circuit(ops, randomness)
ValidateAssigned ==
    /\ verdict # "reject"
    /\ Len(rows) < Len(ops)
    /\ ~assign_state_circuit_raises(ops)
    /\ rows' = After(assign_state_circuit(ops)[Len(rows) + 1]).rows
    /\ verdict' = After(assign_state_circuit(ops)[Len(rows) + 1]).verdict
    /\ UNCHANGED <<tables, ops, gadget>>

NextTrace == ValidateAssigned
SpecTrace == InitTrace /\ [][NextTrace]_vars

-----------------------------------------------------------------------------
(* The comparator called on two limb lists of the same length *)

MaxLimbs == 3

\* limbs at both ends of the 16-bit range
LimbValues == {0, 1, LIMB - 1}

InitCompare ==
    /\ rows = <<>>
    /\ verdict = "none"
    /\ tables = {}
    /\ ops = <<>>
    /\ gadget \in {[lhs |-> a, rhs |-> b] :
                    a \in SeqsUpTo(LimbValues, MaxLimbs), b \in SeqsUpTo(LimbValues, MaxLimbs)}
    /\ Len(gadget.lhs) = Len(gadget.rhs)

\* LowerThanGadget(lhs, rhs).verify(): "accept" when it returns, "reject" when
\* it raises (the assertion, or the IndexError of lhs[0] on empty lists)
Verify ==
    /\ verdict = "none"
    /\ verdict' = IF gadget.lhs = <<>> THEN "reject"
                  ELSE IF LowerThanGadget_verify(gadget.lhs, gadget.rhs) THEN "accept"
                  ELSE "reject"
    /\ UNCHANGED <<rows, tables, ops, gadget>>

NextCompare == Verify
SpecCompare == InitCompare /\ [][NextCompare]_vars

-----------------------------------------------------------------------------
(* The projection called on a list of rows or of operations *)

MaxProj == 3

\* Storage writes of one slot and Account writes of one field with values and
\* committed values 0 and 1, an Account operation with a storage key, and a
\* Start operation
ProjOps ==
    {StorageOp(<<1>>, Write, 1, Addr1, Slot1, v, cv) : v \in {0, 1}, cv \in {0, 1}}
    \cup {AccountOp(<<1>>, Write, Addr1, 1, v, 1) : v \in {0, 1}}
    \cup {Operation(<<1>>, Write, Account, 0, Addr1, 1, Slot1, 1, 0), StartOp}

\* their rows with mpt_counter 1, and the Storage rows with mpt_counter 2
ProjRows ==
    {RowOf(op, 1) : op \in ProjOps}
    \cup {RowOf(op, 2) : op \in {o \in ProjOps : o.tag = Storage}}

InitProject ==
    /\ rows = <<>>
    /\ verdict = "none"
    /\ tables = {}
    /\ ops \in SeqsUpTo(ProjRows, MaxProj) \cup SeqsUpTo(ProjOps, 2)
    /\ gadget = [lhs |-> <<>>, rhs |-> <<>>]

\* tables = Tables(mpt_table_from_ops(ops_or_rows, randomness)); rows are the
\* rows the table was made from
MptTableFromOps ==
    /\ verdict = "none"
    /\ IF mpt_table_from_ops_raises(ops)
       THEN /\ verdict' = "raised"
            /\ UNCHANGED <<rows, tables>>
       ELSE /\ verdict' = "returned"
            /\ tables' = mpt_table_from_ops(ops)
            /\ rows' = IF IsOperation(ops[1]) THEN assign_state_circuit(ops) ELSE ops
    /\ UNCHANGED <<ops, gadget>>

NextProject == MptTableFromOps
SpecProject == InitProject /\ [][NextProject]_vars

-----------------------------------------------------------------------------
(* Properties of accepted tables *)

Accepted == verdict = "accept"
Rejected == verdict = "reject"

\* the row of the last call of check_state_row and its predecessor
row == rows[Len(rows)]
row_prev == IF Len(rows) >= 2 THEN rows[Len(rows) - 1] ELSE FirstPrev

\* the rows accepted so far
accepted_rows == IF Rejected THEN SubSeq(rows, 1, Len(rows) - 1) ELSE rows

IsMemoryRead(r) == tag(r) = Memory /\ r.is_write = 0

\* the accesses of the table to the (id, address) of accepted_rows[i] with a smaller rw_counter
EarlierAccesses(i) ==
    {j \in 1..Len(accepted_rows) :
        /\ tag(accepted_rows[j]) = Memory
        /\ id(accepted_rows[j]) = id(accepted_rows[i])
        /\ address(accepted_rows[j]) = address(accepted_rows[i])
        /\ BigLt(accepted_rows[j].rw_counter, accepted_rows[i].rw_counter)}

LatestEarlierAccesses(i) ==
    {j \in EarlierAccesses(i) :
        \A k \in EarlierAccesses(i) : BigLeq(accepted_rows[k].rw_counter, accepted_rows[j].rw_counter)}

\* C1: in an accepted table every Memory read carries the value of the access
\* to the same (id, address) with the greatest smaller rw_counter, or 0 when
\* the table holds no such access.
C1_ReadAfterWrite ==
    \A i \in 1..Len(accepted_rows) :
        IsMemoryRead(accepted_rows[i]) =>
            IF EarlierAccesses(i) = {} THEN accepted_rows[i].value = 0
            ELSE \A j \in LatestEarlierAccesses(i) : accepted_rows[i].value = accepted_rows[j].value

\* (tag, id, address, field_tag, storage key integer, rw_counter) of a is
\* lexicographically below that of b
RECURSIVE TupleLtFrom(_, _, _)
TupleLtFrom(a, b, i) ==
    IF i > Len(a) THEN FALSE
    ELSE \/ BigLt(a[i], b[i])
         \/ a[i] = b[i] /\ TupleLtFrom(a, b, i + 1)

OrderTuple(r) ==
    <<BigOfInt(tag(r)), BigOfInt(id(r)), address(r), BigOfInt(field_tag(r)),
      int_from_bytes(storage_key_bytes(r)), r.rw_counter>>

TupleLt(rp, r) == TupleLtFrom(OrderTuple(rp), OrderTuple(r), 1)

\* C2: an accepted row that is not a Start row is above its predecessor in the
\* lexicographic order of (tag, id, address, field_tag, storage_key,
\* rw_counter), and a row above its predecessor in that order passes the
\* ordering check.
C2_GlobalOrder ==
    verdict # "none" =>
        /\ (Accepted /\ tag(row) # Start) => TupleLt(row_prev, row)
        /\ (tag(row) # Start /\ TupleLt(row_prev, row)) => check_order(row, row_prev)

\* a read with the keys of the previous row and another value
StaleRead(r, rp) == r.is_write = 0 /\ all_keys_eq(r, rp) /\ r.value # rp.value

\* C3: whatever the tag, a read whose five keys equal the previous row's keys
\* and whose value differs from the previous row's value is rejected.
C3_ReadConsistency ==
    (verdict # "none" /\ StaleRead(row, row_prev)) => Rejected

\* such a read was validated, after an accepted write, and is otherwise well formed
C3_Witness ==
    /\ Rejected
    /\ StaleRead(row, row_prev)
    /\ tag(row) = Account
    /\ check_state_row([row EXCEPT !.value = row_prev.value], row_prev, tables)

IsMptTag(t) == t = Storage \/ t = Account

\* C4 as stated: for every accepted pair, Start rows included, the mpt_counter
\* is the previous one plus 1 iff the tag is Storage or Account, and the
\* previous one otherwise.
C4_Original ==
    Accepted =>
        /\ (row.mpt_counter = row_prev.mpt_counter + 1) <=> IsMptTag(tag(row))
        /\ ~IsMptTag(tag(row)) => row.mpt_counter = row_prev.mpt_counter

\* C4 amended: for every accepted pair, a Storage or Account row has the
\* previous mpt_counter plus 1, a Start row has mpt_counter 0 whatever the
\* previous one is, and a row of any other tag has the previous mpt_counter.
C4_MptCounterStep ==
    Accepted =>
        IF tag(row) = Start THEN row.mpt_counter = 0
        ELSE IF IsMptTag(tag(row)) THEN row.mpt_counter = row_prev.mpt_counter + 1
        ELSE row.mpt_counter = row_prev.mpt_counter

\* a Storage row, a CallContext row and a Start row accepted in this order
C4_Witness ==
    /\ Accepted
    /\ Len(rows) = 3
    /\ tag(rows[1]) = Storage
    /\ tag(rows[2]) = CallContext
    /\ tag(rows[3]) = Start
    /\ rows[2].mpt_counter = 1

\* the oracle entry the claim names for a Storage or Account row
ExpectedMptRow(r, rp) ==
    MPTTableRow(r.mpt_counter,
                IF tag(r) = Storage THEN MPTTableTag_Storage ELSE field_tag(r),
                address(r),
                IF tag(r) = Storage THEN storage_key(r) ELSE RLC_ZERO,
                r.value,
                IF \A i \in 1..5 : r.keys[i] = rp.keys[i] THEN rp.value ELSE r.auxs[1])

\* the row passes every check but the lookup: it is accepted under the oracle
\* that holds every entry
PassesOtherChecks(r, rp) == check_state_row(r, rp, MptEntries)

\* C5: a Storage or Account row that passes all other checks is accepted iff
\* the oracle holds the entry (mpt_counter, target, address, key, value,
\* value_prev) with target Storage and key storage_key for Storage rows,
\* target field_tag and key 0 for Account rows, and value_prev the previous
\* row's value when the five keys are equal, else the committed value.
C5_OracleLinkage ==
    (verdict # "none" /\ IsMptTag(tag(row)) /\ PassesOtherChecks(row, row_prev)) =>
        (Accepted <=> ExpectedMptRow(row, row_prev) \in tables)

\* an Account row that passes the other checks is rejected under an oracle
\* that holds its entry with another value_prev
C5_Witness ==
    /\ Rejected
    /\ tag(row) = Account
    /\ PassesOtherChecks(row, row_prev)
    /\ [ExpectedMptRow(row, row_prev) EXCEPT !.value_prev = 0] \in tables

\* C6 as stated: in an accepted table no Start row follows a row of another tag.
C6_Original ==
    \A i, j \in 1..Len(accepted_rows) :
        (i < j /\ tag(accepted_rows[j]) = Start) => tag(accepted_rows[i]) = Start

\* C6 amended: Start rows are not confined to a prefix.  A Start row that
\* follows a row of another tag is accepted iff it is in range and has
\* rw_counter 0 and mpt_counter 0: its order against the previous row is not
\* checked.
C6_StartAfterAnyRow ==
    (verdict # "none" /\ tag(row) = Start /\ tag(row_prev) # Start) =>
        (Accepted <=> (check_ranges(row) /\ row.rw_counter = <<>> /\ row.mpt_counter = 0))

\* a Start row accepted after a Memory row
C6_Witness ==
    /\ Accepted
    /\ tag(row) = Start
    /\ tag(row_prev) = Memory

\* the last Start row before row i of the accepted table, or 0
LastStartBefore(i) ==
    LET S == {j \in 1..(i - 1) : tag(accepted_rows[j]) = Start}
    IN  IF S = {} THEN 0 ELSE CHOOSE j \in S : \A k \in S : k <= j

MptRowsIn(lo, hi) == {j \in lo..hi : IsMptTag(tag(accepted_rows[j]))}

\* C7 as stated: the k-th Storage or Account row of an accepted table has
\* mpt_counter k, so that no two such rows share an mpt_counter.
C7_Original ==
    \A i \in 1..Len(accepted_rows) :
        IsMptTag(tag(accepted_rows[i])) =>
            /\ accepted_rows[i].mpt_counter = Cardinality(MptRowsIn(1, i))
            /\ \A j \in MptRowsIn(1, i - 1) :
                   accepted_rows[j].mpt_counter # accepted_rows[i].mpt_counter

\* C7 amended: the mpt_counter of a Storage or Account row of an accepted
\* table is the number of Storage or Account rows from the last Start row
\* before it (or from the first row, when there is none) up to that row.
C7_MptCounterSinceStart ==
    \A i \in 1..Len(accepted_rows) :
        IsMptTag(tag(accepted_rows[i])) =>
            accepted_rows[i].mpt_counter = Cardinality(MptRowsIn(LastStartBefore(i) + 1, i))

\* two Storage or Account rows with mpt_counter 1 around a Start row
C7_Witness ==
    /\ Accepted
    /\ Len(rows) = 3
    /\ IsMptTag(tag(rows[1]))
    /\ tag(rows[2]) = Start
    /\ IsMptTag(tag(rows[3]))
    /\ rows[3].mpt_counter = 1

\* C8 as stated: any two distinct rows of an accepted table that are not
\* Start rows have different rw_counters, and rw_counter 0 occurs on Start
\* rows only.
C8_Original ==
    \A i, j \in 1..Len(accepted_rows) :
        /\ (i # j /\ tag(accepted_rows[i]) # Start /\ tag(accepted_rows[j]) # Start) =>
                accepted_rows[i].rw_counter # accepted_rows[j].rw_counter
        /\ accepted_rows[i].rw_counter = <<>> => tag(accepted_rows[i]) = Start

\* C8 amended: in an accepted table rw_counter 0 occurs on Start rows only,
\* and a row that is not a Start row and has the five keys of the row before
\* it has a greater rw_counter than that row; rows with different keys may
\* share an rw_counter.
C8_RwCounterPerKey ==
    \A i \in 1..Len(accepted_rows) :
        tag(accepted_rows[i]) # Start =>
            /\ accepted_rows[i].rw_counter # <<>>
            /\ (i > 1 /\ all_keys_eq(accepted_rows[i], accepted_rows[i - 1])) =>
                    BigLt(accepted_rows[i - 1].rw_counter, accepted_rows[i].rw_counter)

\* two rows with the same keys, then a row with other keys and the rw_counter
\* of the first
C8_Witness ==
    /\ Accepted
    /\ Len(rows) = 3
    /\ tag(rows[1]) = Memory
    /\ all_keys_eq(rows[2], rows[1])
    /\ ~all_keys_eq(rows[3], rows[2])
    /\ rows[3].rw_counter = rows[1].rw_counter

\* C9: an accepted Stack row is a write when its five keys differ from the
\* previous row's, has its pointer in [0, 1023], and, when the previous row
\* has the same tag and id, has the previous pointer or that pointer plus 1.
C9_StackRules ==
    (Accepted /\ tag(row) = Stack) =>
        /\ ~all_keys_eq(row, row_prev) => row.is_write = 1
        /\ BigLeq(address(row), <<1023>>)
        /\ (tag(row_prev) = Stack /\ id(row_prev) = id(row)) =>
                \/ address(row) = address(row_prev)
                \/ address(row) = BigAdd(address(row_prev), <<1>>)

\* a write one above the pointer of the previous row of the same call, and a
\* read of the same slot after it
C9_Witness ==
    /\ Accepted
    /\ Len(rows) = 3
    /\ \A i \in 1..3 : tag(rows[i]) = Stack /\ id(rows[i]) = 1
    /\ address(rows[2]) = BigAdd(address(rows[1]), <<1>>)
    /\ all_keys_eq(rows[3], rows[2])
    /\ rows[3].is_write = 0

\* C10: an accepted Memory row has its value in [0, 255], its address in
\* [0, 2^32 - 1], field_tag 0 and storage_key 0, and value 0 when it is a read
\* whose five keys differ from the previous row's.
C10_MemoryRules ==
    (Accepted /\ tag(row) = Memory) =>
        /\ 0 <= row.value /\ row.value <= 255
        /\ BigLt(address(row), Two32)
        /\ field_tag(row) = 0
        /\ storage_key(row) = RLC_ZERO
        /\ (row.is_write = 0 /\ ~all_keys_eq(row, row_prev)) => row.value = 0

\* a read of a fresh address accepted after a write of 255 to another one
C10_Witness ==
    /\ Accepted
    /\ Len(rows) = 2
    /\ tag(rows[1]) = Memory /\ rows[1].value = 255
    /\ tag(rows[2]) = Memory /\ rows[2].is_write = 0
    /\ ~all_keys_eq(rows[2], rows[1])

\* C11: every TxReceipt row whose transaction id is outside [1, 2047] is
\* rejected, in particular the ids 0 and 2048.
C11_TxIdRange ==
    (verdict # "none" /\ tag(row) = TxReceipt /\ ~(1 <= id(row) /\ id(row) <= 2047)) =>
        Rejected

\* the maximal runs of consecutive TxReceipt rows of the accepted table
IsReceiptRun(a, b) ==
    /\ a <= b
    /\ \A k \in a..b : tag(accepted_rows[k]) = TxReceipt
    /\ a = 1 \/ tag(accepted_rows[a - 1]) # TxReceipt
    /\ b = Len(accepted_rows) \/ tag(accepted_rows[b + 1]) # TxReceipt

\* C12: an accepted TxReceipt row has id 1 when the previous row has another
\* tag, and the previous id plus 1 when the previous row is a TxReceipt row
\* with another id; so the ids of a maximal run of consecutive accepted
\* TxReceipt rows do not decrease and are exactly 1..n.
C12_ReceiptIdProgression ==
    /\ (Accepted /\ tag(row) = TxReceipt /\ tag(row_prev) # TxReceipt) => id(row) = 1
    /\ (Accepted /\ tag(row) = TxReceipt /\ tag(row_prev) = TxReceipt /\ id(row) # id(row_prev)) =>
            id(row) = id(row_prev) + 1
    /\ \A a, b \in 1..Len(accepted_rows) :
        IsReceiptRun(a, b) =>
            /\ \A k \in a..(b - 1) : id(accepted_rows[k]) <= id(accepted_rows[k + 1])
            /\ {id(accepted_rows[k]) : k \in a..b} = 1..id(accepted_rows[b])

\* two rows of transaction 1 and the first row of transaction 2 accepted
C12_Witness ==
    /\ Accepted
    /\ Len(rows) = 3
    /\ \A k \in 1..3 : tag(rows[k]) = TxReceipt
    /\ id(rows[1]) = 1 /\ id(rows[2]) = 1 /\ id(rows[3]) = 2

\* the Storage and Account operations among the first k operations
MptOpsUpTo(k) == {j \in 1..k : ops[j].tag = Storage \/ ops[j].tag = Account}

\* the k-th row carries the fields of the k-th operation
RowIsOfOp(r, op) ==
    /\ r.rw_counter = op.rw_counter
    /\ r.is_write = (IF op.rw = Read THEN 0 ELSE 1)
    /\ tag(r) = op.tag /\ id(r) = op.id /\ address(r) = op.address
    /\ field_tag(r) = op.field_tag
    /\ int_from_bytes(storage_key_bytes(r)) = op.storage_key
    /\ r.value = op.value /\ r.auxs = <<op.aux0>>

\* C13: a call of assign_state_circuit that returns gives one row per
\* operation in the order of the operations, the k-th row has as mpt_counter
\* the number of Storage or Account operations among the first k operations,
\* and a second call on the same list returns the same rows.
C13_CounterThreading ==
    /\ [](verdict = "returned" =>
            /\ Len(rows) = Len(ops)
            /\ \A k \in 1..Len(rows) :
                /\ RowIsOfOp(rows[k], ops[k])
                /\ rows[k].mpt_counter = Cardinality(MptOpsUpTo(k)))
    /\ [][verdict = "returned" => rows' = rows]_vars

\* rows returned for a Storage, a Memory and an Account operation
C13_Witness ==
    /\ verdict = "returned"
    /\ Len(rows) = 3
    /\ ops[1].tag = Storage /\ ops[2].tag = Memory /\ ops[3].tag = Account
    /\ rows[2].mpt_counter = 1 /\ rows[3].mpt_counter = 2

\* C14: assign_state_circuit returns rows for every operation list, also
\* when an address field is 2^160 or more; it never raises.
C14_BuilderTotal == verdict # "raised"

\* key number i of the row is not zero
KeyNonZero(r, i) == IF i \in {2, 4} THEN r.keys[i] # 0 ELSE r.keys[i] # <<>>

\* C15: for every tag, a row in which a key that the tag does not use (Start:
\* id, address, field_tag, storage_key; Memory, Stack, TxAccessListAccount:
\* field_tag, storage_key; Storage, TxAccessListAccountStorage: field_tag;
\* CallContext, TxReceipt: address, storage_key; Account: id, storage_key;
\* TxRefund: address, field_tag, storage_key; AccountDestructed: id,
\* field_tag, storage_key) is not zero is rejected.
C15_ShapeChecking ==
    (verdict # "none" /\ \E i \in UnusedKeys(tag(row)) : KeyNonZero(row, i)) => Rejected

\* C16: the rows built from a Start operation followed by the operations of a
\* reference byte memory (values in [0, 255], addresses in [0, 2^32 - 1], ids
\* in [0, 2^28 - 1], distinct rw_counters in [1, 2^32 - 1]) sorted by (id,
\* address, rw_counter) are accepted pair by pair.
C16_MemoryTraceAccepted == ~Rejected

\* a whole trace accepted: a write of 255, a read of it, and a read of a
\* fresh address of the greatest call id
C16_Witness ==
    /\ Accepted
    /\ Len(rows) = 4 /\ Len(ops) = 4
    /\ rows[2].is_write = 1 /\ rows[2].value = 255
    /\ rows[3].is_write = 0 /\ rows[3].value = 255 /\ all_keys_eq(rows[3], rows[2])
    /\ rows[4].is_write = 0 /\ rows[4].value = 0 /\ id(rows[4]) = MAX_ID

\* the oracle entry of the Storage or Account row r with the given value_prev
MptEntryOf(r, value_prev) ==
    MPTTableRow(r.mpt_counter,
                IF tag(r) = Storage THEN MPTTableTag_Storage ELSE field_tag(r),
                address(r),
                IF tag(r) = Storage THEN storage_key(r) ELSE RLC_ZERO,
                r.value,
                value_prev)

\* rows i..j of the accepted table have the same five keys
SameKeysRun(i, j) == \A k \in i..j : accepted_rows[k].keys = accepted_rows[i].keys

\* C17: in an accepted table, the Storage (or Account) rows of a run of
\* consecutive rows with the same five keys carry the same committed value;
\* the oracle holds, for the first row of the run, its entry with value_prev
\* the committed value, and for each later row its entry with value_prev the
\* value of the row before it.
C17_CommittedValueChain ==
    \A i \in 1..Len(accepted_rows) :
        IsMptTag(tag(accepted_rows[i])) =>
            /\ \A j \in i..Len(accepted_rows) :
                SameKeysRun(i, j) => accepted_rows[j].auxs[1] = accepted_rows[i].auxs[1]
            /\ IF i > 1 /\ SameKeysRun(i - 1, i)
               THEN MptEntryOf(accepted_rows[i], accepted_rows[i - 1].value) \in tables
               ELSE MptEntryOf(accepted_rows[i], accepted_rows[i].auxs[1]) \in tables

\* an accepted run of two Storage rows: the first changes the committed value
\* 0 to 1 and the second changes 1 back to 0
C17_Witness ==
    /\ Accepted
    /\ Len(rows) = 2
    /\ tag(rows[1]) = Storage /\ tag(rows[2]) = Storage
    /\ all_keys_eq(rows[2], rows[1])
    /\ rows[1].auxs[1] = 0 /\ rows[1].value = 1
    /\ rows[2].value = 0 /\ rows[2].is_write = 1

\* C18: an accepted row that is not a Start row has a tag greater than or
\* equal to the previous row's tag, whatever the other keys are, storage keys
\* that use all 256 bits included.
C18_TagMonotonic ==
    (Accepted /\ tag(row) # Start) => tag(row) >= tag(row_prev)

\* rows i and j of the accepted table are TxReceipt rows of one run of
\* consecutive TxReceipt rows
SameReceiptRun(i, j) == \A k \in i..j : tag(accepted_rows[k]) = TxReceipt

\* C19: in an accepted table, of two CumulativeGasUsed rows of the
\* transactions n and n + 1 the second has the greater value, also when the
\* transactions have receipt rows of other field tags.
C19_CumulativeGasGrows ==
    \A i, j \in 1..Len(accepted_rows) :
        (/\ i < j
         /\ SameReceiptRun(i, j)
         /\ field_tag(accepted_rows[i]) = CumulativeGasUsed
         /\ field_tag(accepted_rows[j]) = CumulativeGasUsed
         /\ id(accepted_rows[j]) = id(accepted_rows[i]) + 1) =>
            accepted_rows[j].value > accepted_rows[i].value

\* a field of the row is outside its declared width or range
FieldOutOfRange(r) ==
    \/ ~(1 <= tag(r) /\ tag(r) <= 12)
    \/ id(r) > 268435455
    \/ field_tag(r) > 24
    \/ \E i \in 1..Len(address_limbs(r)) : address_limbs(r)[i] > 65535
    \/ address(r) # linear_combine_limbs(address_limbs(r))
    \/ BigLt(<<65535, 65535>>, r.rw_counter)

\* C20: a row is rejected when its tag is outside [1, 12], its id above
\* 2^28 - 1, its field_tag above 24, an address limb above 2^16 - 1, its
\* address not the base-2^16 combination of its ten limbs, or its rw_counter
\* above 2^32 - 1.
C20_RangeEnforced ==
    (verdict # "none" /\ FieldOutOfRange(row)) => Rejected

\* the integer sum of s[i] * 2^(16 (i - 1)), as a limb sequence
LimbsValue(s) == BigNorm(s)

\* C21: on two little-endian lists of the same length with limbs in
\* [0, 2^16 - 1], verify passes iff the integer of lhs is below the integer of
\* rhs; equal lists fail.
C21_ComparatorCorrect ==
    verdict # "none" =>
        /\ Accepted <=> BigLt(LimbsValue(gadget.lhs), LimbsValue(gadget.rhs))
        /\ gadget.lhs = gadget.rhs => Rejected

\* verify passed on lists that differ in the lowest limb only, and whose
\* highest limbs are zero
C21_Witness ==
    /\ Accepted
    /\ Len(gadget.lhs) = 3
    /\ gadget.lhs[1] = 1 /\ gadget.rhs[1] = LIMB - 1
    /\ gadget.lhs[2] = gadget.rhs[2] /\ gadget.lhs[2] # 0
    /\ gadget.lhs[3] = 0 /\ gadget.rhs[3] = 0

\* the row before row i of rows, the Start row of zeros before the first
PrevOf(i) == IF i = 1 THEN FirstPrev ELSE rows[i - 1]

\* C22: with the oracle mpt_table_from_ops(rows), no Storage or Account row
\* of rows is rejected because of its lookup: a row that passes check_storage
\* or check_account, against the row before it, when the oracle also holds
\* the entry it looks up, passes it under the oracle itself.
C22_ProjectionAgrees ==
    verdict = "returned" =>
        \A i \in 1..Len(rows) :
            (/\ IsMptTag(tag(rows[i]))
             /\ check_tag_rules(rows[i], PrevOf(i), tables \cup {ExpectedMptRow(rows[i], PrevOf(i))})) =>
                check_tag_rules(rows[i], PrevOf(i), tables)

\* a table made from a Storage row, a second one with the same keys and
\* another value, and an Account row
C22_Witness ==
    /\ verdict = "returned"
    /\ Len(rows) = 3
    /\ tag(rows[1]) = Storage /\ tag(rows[2]) = Storage /\ tag(rows[3]) = Account
    /\ all_keys_eq(rows[2], rows[1])
    /\ rows[1].auxs[1] = rows[2].auxs[1]
    /\ rows[1].value # rows[1].auxs[1]
    /\ rows[3].keys[5] = RLC_ZERO
    /\ \A i \in 1..3 : check_tag_rules(rows[i], PrevOf(i), tables)

\* every Start operation of ops precedes every other operation
StartOpsFirst ==
    \A i, j \in 1..Len(ops) : (i < j /\ ops[j].tag = Start) => ops[i].tag = Start

\* C23: when all Start operations precede every other operation, every
\* consecutive pair of the rows returned by assign_state_circuit satisfies
\* the mpt_counter constraints of check_state_row and check_start: a Start
\* row has mpt_counter 0, a Storage or Account row the previous mpt_counter
\* plus 1, and any other row the previous mpt_counter.
C23_BuilderMeetsCounterRules ==
    (verdict = "returned" /\ StartOpsFirst) =>
        \A k \in 1..Len(rows) :
            /\ check_mpt_counter(rows[k], PrevOf(k))
            /\ tag(rows[k]) = Start => rows[k].mpt_counter = 0

\* rows returned for a Start, a Storage and an Account operation
C23_Witness ==
    /\ verdict = "returned"
    /\ Len(rows) = 3
    /\ ops[1].tag = Start /\ ops[2].tag = Storage /\ ops[3].tag = Account
    /\ rows[1].mpt_counter = 0 /\ rows[3].mpt_counter = 2

\* the stack pointer of a row as an integer (pointers of one limb)
StackPtr(r) == IF address(r) = <<>> THEN 0 ELSE address(r)[1]

\* rows a..b of the accepted table are Stack rows of one call
IsStackRun(a, b) ==
    /\ a <= b
    /\ \A k \in a..b :
        tag(accepted_rows[k]) = Stack /\ id(accepted_rows[k]) = id(accepted_rows[a])

\* C24: in an accepted table, along consecutive Stack rows of one call the
\* stack pointers do not decrease and the pointers touched are all the
\* integers of an interval inside [0, 1023]; the first row of every run of
\* rows with the same keys is a write.
C24_StackContiguous ==
    /\ \A a, b \in 1..Len(accepted_rows) :
        IsStackRun(a, b) =>
            /\ \A k \in a..b :
                Len(address(accepted_rows[k])) <= 1 /\ StackPtr(accepted_rows[k]) <= 1023
            /\ \A k \in a..(b - 1) :
                StackPtr(accepted_rows[k]) <= StackPtr(accepted_rows[k + 1])
            /\ {StackPtr(accepted_rows[k]) : k \in a..b}
                    = StackPtr(accepted_rows[a])..StackPtr(accepted_rows[b])
    /\ \A i \in 1..Len(accepted_rows) :
        (/\ tag(accepted_rows[i]) = Stack
         /\ accepted_rows[i].keys # (IF i = 1 THEN FirstPrev ELSE accepted_rows[i - 1]).keys) =>
            accepted_rows[i].is_write = 1

\* writes to the pointers 0, 1 and 2 of one call accepted
C24_Witness ==
    /\ Accepted
    /\ Len(rows) = 3
    /\ \A i \in 1..3 :
        tag(rows[i]) = Stack /\ id(rows[i]) = 2 /\ StackPtr(rows[i]) = i - 1 /\ rows[i].is_write = 1

====
